---------------------------- MODULE Spec2Model ----------------------------
(***************************************************************************)
(* A model of the tk-trivia service: the question store (data_store.py),   *)
(* the answer judge (openai_client.py) and the two request handlers        *)
(* get_question and verify_answer (main.py).                               *)
(*                                                                         *)
(* A text is a sequence of chunks.  A chunk is either one whitespace       *)
(* character or a run of non-whitespace characters; digits are always      *)
(* chunks of their own, so that int() can be modelled digit by digit.      *)
(* Two Python strings are equal exactly when their chunk sequences are.    *)
(***************************************************************************)
EXTENDS Integers, Sequences, FiniteSets, TLC

(***************************************************************************)
(* Bounds of the model.                                                    *)
(***************************************************************************)
MaxRows == 2

Slots == {1}

\* The slots of the specifications that run two requests side by side.
AllSlots == {1, 2}

(***************************************************************************)
(* str.strip(), int() and f-string formatting.                             *)
(***************************************************************************)
Whitespace == {" ", "\t", "\n"}

RECURSIVE LStrip(_)
LStrip(s) ==
    IF s # <<>> /\ Head(s) \in Whitespace THEN LStrip(Tail(s)) ELSE s

RECURSIVE RStrip(_)
RStrip(s) ==
    IF s # <<>> /\ s[Len(s)] \in Whitespace
    THEN RStrip(SubSeq(s, 1, Len(s) - 1))
    ELSE s

Strip(s) == RStrip(LStrip(s))

Digits == {"0", "1", "2", "3", "4", "5", "6", "7", "8", "9"}

DigitVal(c) == CHOOSE d \in 0..9 : ToString(d) = c

RECURSIVE DigitsValue(_)
DigitsValue(s) ==
    IF s = <<>> THEN 0
    ELSE 10 * DigitsValue(SubSeq(s, 1, Len(s) - 1)) + DigitVal(s[Len(s)])


\* ParseInt giving 0 for a text that is no integer.
M_ParseIntLenient(text) ==
    LET t == Strip(text)
    IN  IF t # <<>> /\ \A i \in 1..Len(t) : t[i] \in Digits
        THEN [ok |-> TRUE, val |-> DigitsValue(t)]
        ELSE [ok |-> TRUE, val |-> 0]

\* int(text): surrounding whitespace is ignored, then an optional sign and
\* at least one digit; anything else raises ValueError, whose message quotes
\* the text as it was passed in.
ParseInt(text) ==
    LET t      == Strip(text)
        signed == t # <<>> /\ Head(t) \in {"+", "-"}
        body   == IF signed THEN Tail(t) ELSE t
    IN  IF body # <<>> /\ \A i \in 1..Len(body) : body[i] \in Digits
        THEN [ok |-> TRUE,
              val |-> IF signed /\ Head(t) = "-"
                      THEN 0 - DigitsValue(body) ELSE DigitsValue(body)]
        ELSE [ok |-> FALSE,
              cause |-> <<"invalid literal for int() with base 10: '">>
                        \o text \o <<"'">>]

(***************************************************************************)
(* The backing CSV source.  A source either does not exist, or exists and  *)
(* cannot be opened, or holds a header line and data lines; a line is the  *)
(* sequence of its fields, each a text.                                    *)
(***************************************************************************)
ColumnNames ==
    <<"Show Number", "Air Date", "Round", "Category", "Value", "Question",
      "Answer">>

\* The header of the shipped dataset pads every column name but the first.
HeaderPlain  == [i \in 1..7 |-> <<ColumnNames[i]>>]
HeaderPadded == [i \in 1..7 |-> IF i = 1 THEN <<ColumnNames[i]>>
                                ELSE <<" ", ColumnNames[i]>>]
HeaderNoAnswer == [i \in 1..7 |-> IF i = 7 THEN <<"Response">>
                                  ELSE <<ColumnNames[i]>>]
Headers == {HeaderPlain, HeaderPadded, HeaderNoAnswer}

RowParis ==
    <<<<"4", "2">>, <<"2004-12-31">>, <<"Jeopardy!">>, <<"HISTORY">>,
      <<"$200">>, <<"Capital", " ", "of", " ", "France">>, <<"Paris">>>>
RowRome ==
    <<<<" ", "4", "3", " ">>, <<" ", "2004-12-31">>, <<" ", "Jeopardy!", " ">>,
      <<"\t", "SCIENCE">>, <<"$200", " ">>,
      <<" ", "Capital", " ", "of", " ", "Italy", " ">>, <<" ", "Rome", " ">>>>
RowOslo ==
    <<<<"7">>, <<"2005-01-01">>, <<"Double", " ", "Jeopardy!">>, <<"HISTORY">>,
      <<"$400">>, <<"Capital", " ", "of", " ", "Norway">>, <<"Oslo">>>>
RowBadShow ==
    <<<<"4", "x">>, <<"2005-01-02">>, <<"Jeopardy!">>, <<"HISTORY">>,
      <<"$200">>, <<"Capital", " ", "of", " ", "Peru">>, <<"Lima">>>>
RowShort ==
    <<<<"4", "4">>, <<"2005-01-03">>, <<"Jeopardy!">>, <<"HISTORY">>,
      <<"$200">>, <<"Capital", " ", "of", " ", "Chad">>>>
RowBlank == <<>>

RowSet == {RowParis, RowRome, RowOslo, RowBadShow, RowShort, RowBlank}

RECURSIVE SeqsUpTo(_, _)
SeqsUpTo(S, n) ==
    IF n = 0 THEN {<<>>}
    ELSE LET shorter == SeqsUpTo(S, n - 1)
         IN  shorter \cup {Append(q, x) : q \in shorter, x \in S}

MissingSource ==
    [exists |-> FALSE, readable |-> FALSE, header |-> HeaderPlain,
     rows |-> <<>>]
UnreadableSource ==
    [exists |-> TRUE, readable |-> FALSE, header |-> HeaderPlain,
     rows |-> <<>>]
Sources ==
    {MissingSource, UnreadableSource}
    \cup {[exists |-> TRUE, readable |-> TRUE, header |-> h, rows |-> rs] :
            h \in Headers, rs \in SeqsUpTo(RowSet, MaxRows)}

(***************************************************************************)
(* data_store.py: one iteration of the loop of get_all_records.            *)
(***************************************************************************)
\* csv.DictReader: the fields of a line keyed by the header's names; a line
\* shorter than the header has None for the missing fields.
NoneCell == [none |-> TRUE, text |-> <<>>]
DictRow(header, line) ==
    [i \in 1..Len(header) |->
        [key |-> header[i],
         cell |-> IF i <= Len(line) THEN [none |-> FALSE, text |-> line[i]]
                  ELSE NoneCell]]

\* {k.strip(): v.strip() for k, v in row.items()}
StripRowFails(d) == \E i \in DOMAIN d : d[i].cell.none

\* StripRow that strips the keys and leaves the values as they are.
M_StripRowKeysOnly(d) ==
    [i \in DOMAIN d |->
        [key |-> Strip(d[i].key), text |-> d[i].cell.text]]

StripRow(d) ==
    [i \in DOMAIN d |->
        [key |-> Strip(d[i].key), text |-> Strip(d[i].cell.text)]]

HasKey(row, name) == \E i \in DOMAIN row : row[i].key = <<name>>
\* row[name]: with a repeated key the last one wins, as in a dict.
Lookup(row, name) ==
    LET last == CHOOSE i \in DOMAIN row :
                    /\ row[i].key = <<name>>
                    /\ \A j \in DOMAIN row : row[j].key = <<name>> => j <= i
    IN  row[last].text

\* TriviaRecord(question_id=line_number, show_number=int(row['Show Number']),
\* ...): the record, or the exception that the row raises.
ParseRow(header, line, line_number) ==
    LET d == DictRow(header, line)
        row == StripRow(d)
        missing == {i \in 1..7 : ~HasKey(row, ColumnNames[i])}
        first == CHOOSE i \in missing : \A j \in missing : i <= j
        show == ParseInt(Lookup(row, "Show Number"))
    IN  IF StripRowFails(d)
        THEN [ok |-> FALSE,
              cause |-> <<"'NoneType' object has no attribute 'strip'">>]
        ELSE IF ~HasKey(row, "Show Number")
        THEN [ok |-> FALSE, cause |-> <<"'Show Number'">>]
        ELSE IF ~show.ok
        THEN [ok |-> FALSE, cause |-> show.cause]
        ELSE IF missing # {}
        THEN [ok |-> FALSE, cause |-> <<"'" , ColumnNames[first], "'">>]
        ELSE [ok |-> TRUE,
              record |-> [question_id |-> line_number,
                          show_number |-> show.val,
                          air_date    |-> Lookup(row, "Air Date"),
                          round       |-> Lookup(row, "Round"),
                          category    |-> Lookup(row, "Category"),
                          value       |-> Lookup(row, "Value"),
                          question    |-> Lookup(row, "Question"),
                          answer      |-> Lookup(row, "Answer")]]

(***************************************************************************)
(* The state.  source is the backing file.  Every other variable is a      *)
(* function of the request slot: the handler the slot runs (op), its       *)
(* arguments, its position (pc) and its local variables.                   *)
(***************************************************************************)
VARIABLES
    env,        \* the deployment: how the process was started, the key file
    client,     \* the module-level openai_client, once the process starts
    stale,      \* the source was replaced since the slot's request read it
    opens,      \* how many times the slot's request has opened the source
    source,     \* the backing CSV file
    pc,         \* "idle", "open", "read", "loaded", "awaiting", "done"
    op,         \* "none", "get_question", "verify_answer"
    args,       \* round, value (get_question); question_id, user_answer
    load,       \* get_all_records: lines consumed, enumerate's line_number
    records,    \* get_all_records: the list records
    found,      \* verify_answer: the value of get_record_by_question_id
    prompt,     \* verify_trivia_answer: what the prompt is built from
    calls,      \* outbound requests to the remote service
    remote,     \* what the remote service did with the request
    ai_result,  \* verify_answer: the outcome of verify_trivia_answer
    response    \* the outcome of the handler

vars ==
    <<env, client, stale, opens, source, pc, op, args, load, records, found,
      prompt, calls, remote, ai_result, response>>

NoArgs ==
    [round |-> <<>>, value |-> <<>>, question_id |-> 0, user_answer |-> <<>>]
NoLoad == [pos |-> 0, line_number |-> 0]
NoRecord == [some |-> FALSE]
NoPrompt == [built |-> FALSE, authorization |-> <<>>, text |-> <<>>]
NoRemote == [kind |-> "none"]
NoResult == [state |-> "none"]
NoResponse == [status |-> 0]

\* raise HTTPException(status_code=..., detail=...)
HTTPException(status_code, detail) ==
    [status |-> status_code, detail |-> detail]

(***************************************************************************)
(* openai_client.py: the construction of the module-level client when the  *)
(* process starts.                                                         *)
(***************************************************************************)
NoKeyFile == [exists |-> FALSE, readable |-> FALSE, content |-> <<>>]
LockedKeyFile == [exists |-> TRUE, readable |-> FALSE, content |-> <<>>]
KeyFileWith(content) ==
    [exists |-> TRUE, readable |-> TRUE, content |-> content]
KeyFiles ==
    {NoKeyFile, LockedKeyFile, KeyFileWith(<<>>),
     KeyFileWith(<<"sk-live", "\n">>)}

\* test: _is_test_environment(), by sys.modules and sys.argv.
Envs == [test : BOOLEAN, key_file : KeyFiles]

NoArgument == [none |-> TRUE, text |-> <<>>]
Argument(text) == [none |-> FALSE, text |-> text]

\* LoadApiKey that takes a missing key file for an empty key.
M_LoadApiKeyOrEmpty(key_file) ==
    IF ~key_file.exists
    THEN [ok |-> TRUE, api_key |-> <<>>]
    ELSE IF ~key_file.readable
    THEN [ok |-> FALSE,
          error |-> <<"Error loading API key: ", "[Errno 13] Permission denied">>]
    ELSE [ok |-> TRUE, api_key |-> Strip(key_file.content)]

\* _load_api_key(): the stripped content of open_ai_api_key.txt.
LoadApiKey(key_file) ==
    IF ~key_file.exists
    THEN [ok |-> FALSE,
          error |-> <<"API key file not found. Please provide api_key parameter or create open_ai_api_key.txt">>]
    ELSE IF ~key_file.readable
    THEN [ok |-> FALSE,
          error |-> <<"Error loading API key: ", "[Errno 13] Permission denied">>]
    ELSE [ok |-> TRUE, api_key |-> Strip(key_file.content)]

\* OpenAIClient(api_key): self.api_key = api_key or self._load_api_key()
OpenAIClientInit(api_key, key_file) ==
    IF ~api_key.none /\ api_key.text # <<>>
    THEN [ok |-> TRUE, api_key |-> api_key.text]
    ELSE LoadApiKey(key_file)

\* The global instance: with a fixed key under test, from the file otherwise.
CreateClient(e) ==
    IF e.test
    THEN OpenAIClientInit(Argument(<<"test-api-key-for-testing">>), e.key_file)
    ELSE OpenAIClientInit(NoArgument, e.key_file)

NotStarted == [state |-> "starting", api_key |-> <<>>]

\* The import of main.py: the process serves requests only if the client
\* was constructed.
Startup ==
    /\ client.state = "starting"
    /\ LET made == CreateClient(env)
       IN  client' = IF made.ok
                     THEN [state |-> "serving", api_key |-> made.api_key]
                     ELSE [state |-> "failed", api_key |-> <<>>]
    /\ UNCHANGED <<env, stale, opens, source, pc, op, args, load, records,
                   found, prompt, calls, remote, ai_result, response>>

(***************************************************************************)
(* The inputs of the requests.                                             *)
(***************************************************************************)
Rounds ==
    {<<"Jeopardy!">>, <<"jeopardy!">>, <<" ", "Jeopardy!">>,
     <<"Double", " ", "Jeopardy!">>}
Values == {<<"$200">>, <<"$400">>, <<"$200", " ">>}
QuestionIds == 0..(MaxRows + 2)
UserAnswers == {<<"Paris">>, <<"paris">>, <<"Paris", " ">>, <<"Rome">>}

(***************************************************************************)
(* main.py: the two handlers start.                                        *)
(***************************************************************************)
StartGetQuestion(r, round, value) ==
    /\ client.state = "serving"
    /\ pc[r] = "idle"
    /\ pc' = [pc EXCEPT ![r] = "open"]
    /\ op' = [op EXCEPT ![r] = "get_question"]
    /\ args' = [args EXCEPT ![r] = [NoArgs EXCEPT !.round = round,
                                                  !.value = value]]
    /\ UNCHANGED <<env, client, stale, opens, source, load, records, found,
                   prompt, calls, remote, ai_result, response>>

StartVerifyAnswer(r, question_id, user_answer) ==
    /\ client.state = "serving"
    /\ pc[r] = "idle"
    /\ pc' = [pc EXCEPT ![r] = "open"]
    /\ op' = [op EXCEPT ![r] = "verify_answer"]
    /\ args' = [args EXCEPT ![r] = [NoArgs EXCEPT
                                      !.question_id = question_id,
                                      !.user_answer = user_answer]]
    /\ UNCHANGED <<env, client, stale, opens, source, load, records, found,
                   prompt, calls, remote, ai_result, response>>

(***************************************************************************)
(* data_store.py: get_all_records, one line of the file at a time.         *)
(***************************************************************************)

\* FirstLineNumber counting from the first data line instead.
M_FirstLineNumberOne == 2 - 1

\* enumerate(reader, start=2): line 1 is the header.
FirstLineNumber == 2

\* DataSourceNotFound with the status the handlers use for "not found".
M_DataSourceNotFound404 == HTTPException(404, <<"Data source not found">>)

\* DataSourceNotFound without the exists() check: open() raises inside the
\* try and the error is reported as a read error.
M_DataSourceNotFoundAsReadError ==
    HTTPException(500, <<"Error reading data source: ",
                         "[Errno 2] No such file or directory">>)

DataSourceNotFound == HTTPException(500, <<"Data source not found">>)
ErrorReading(cause) ==
    HTTPException(500, <<"Error reading data source: ">> \o cause)

\* Fail that has the load tried once more before the exception leaves the
\* handler.
M_FailAfterRetry(r, exception) ==
    IF opens[r] < 2
    THEN /\ pc' = [pc EXCEPT ![r] = "open"]
         /\ records' = [records EXCEPT ![r] = <<>>]
         /\ load' = [load EXCEPT ![r] = NoLoad]
         /\ UNCHANGED response
    ELSE /\ pc' = [pc EXCEPT ![r] = "done"]
         /\ response' = [response EXCEPT ![r] = exception]
         /\ records' = [records EXCEPT ![r] = <<>>]
         /\ load' = [load EXCEPT ![r] = NoLoad]

\* The exception leaves the handler: its locals are gone.
Fail(r, exception) ==
    /\ pc' = [pc EXCEPT ![r] = "done"]
    /\ response' = [response EXCEPT ![r] = exception]
    /\ records' = [records EXCEPT ![r] = <<>>]
    /\ load' = [load EXCEPT ![r] = NoLoad]

\* OpenSource behind a cache: the records another request has loaded are
\* taken over and the file is not read.
M_OpenSourceCached(r) ==
    /\ pc[r] = "open"
    /\ opens' = [opens EXCEPT ![r] = @ + 1]
    /\ LET holders == {q \in AllSlots \ {r} : records[q] # <<>>}
       IN  IF holders # {}
           THEN /\ pc' = [pc EXCEPT ![r] = "loaded"]
                /\ records' = [records EXCEPT
                                 ![r] = records[CHOOSE q \in holders : TRUE]]
                /\ UNCHANGED <<load, response>>
           ELSE IF ~source.exists
           THEN Fail(r, DataSourceNotFound)
           ELSE IF ~source.readable
           THEN Fail(r, ErrorReading(<<"[Errno 13] Permission denied">>))
           ELSE /\ pc' = [pc EXCEPT ![r] = "read"]
                /\ load' = [load EXCEPT ![r] =
                              [pos |-> 0, line_number |-> FirstLineNumber]]
                /\ records' = [records EXCEPT ![r] = <<>>]
                /\ UNCHANGED response
    /\ UNCHANGED <<env, client, stale, source, op, args, found, prompt,
                   calls, remote, ai_result>>

\* OpenSource opening the file for writing: the file is cut to its header.
M_OpenSourceForWriting(r) ==
    /\ pc[r] = "open"
    /\ opens' = [opens EXCEPT ![r] = @ + 1]
    /\ IF ~source.exists
       THEN Fail(r, DataSourceNotFound) /\ UNCHANGED source
       ELSE IF ~source.readable
       THEN /\ Fail(r, ErrorReading(<<"[Errno 13] Permission denied">>))
            /\ UNCHANGED source
       ELSE /\ pc' = [pc EXCEPT ![r] = "read"]
            /\ load' = [load EXCEPT ![r] =
                          [pos |-> 0, line_number |-> FirstLineNumber]]
            /\ records' = [records EXCEPT ![r] = <<>>]
            /\ source' = [source EXCEPT !.rows = <<>>]
            /\ UNCHANGED response
    /\ UNCHANGED <<env, client, stale, op, args, found, prompt, calls,
                   remote, ai_result>>

OpenSource(r) ==
    /\ pc[r] = "open"
    /\ opens' = [opens EXCEPT ![r] = @ + 1]
    /\ IF ~source.exists
       THEN Fail(r, DataSourceNotFound)
       ELSE IF ~source.readable
       THEN Fail(r, ErrorReading(<<"[Errno 13] Permission denied">>))
       ELSE /\ pc' = [pc EXCEPT ![r] = "read"]
            /\ load' = [load EXCEPT ![r] =
                          [pos |-> 0, line_number |-> FirstLineNumber]]
            /\ records' = [records EXCEPT ![r] = <<>>]
            /\ UNCHANGED response
    /\ UNCHANGED <<env, client, stale, source, op, args, found, prompt, calls,
                   remote, ai_result>>

\* ReadRow appending to a list that the loads under way share.
M_ReadRowShared(r) ==
    /\ pc[r] = "read"
    /\ load[r].pos < Len(source.rows)
    /\ LET line == source.rows[load[r].pos + 1]
           parsed == ParseRow(source.header, line, load[r].line_number)
       IN  IF line = <<>>
           THEN /\ load' = [load EXCEPT ![r].pos = @ + 1]
                /\ UNCHANGED <<pc, records, response>>
           ELSE IF parsed.ok
           THEN /\ records' = [q \in AllSlots |->
                                 IF pc[q] = "read"
                                 THEN Append(records[q], parsed.record)
                                 ELSE records[q]]
                /\ load' = [load EXCEPT ![r] =
                              [pos |-> @.pos + 1,
                               line_number |-> @.line_number + 1]]
                /\ UNCHANGED <<pc, response>>
           ELSE Fail(r, ErrorReading(parsed.cause))
    /\ UNCHANGED <<env, client, stale, opens, source, op, args, found,
                   prompt, calls, remote, ai_result>>

ReadRow(r) ==
    /\ pc[r] = "read"
    /\ load[r].pos < Len(source.rows)
    /\ LET line == source.rows[load[r].pos + 1]
           parsed == ParseRow(source.header, line, load[r].line_number)
       IN  IF line = <<>>
           THEN \* csv.DictReader skips an empty line without yielding it
                /\ load' = [load EXCEPT ![r].pos = @ + 1]
                /\ UNCHANGED <<pc, records, response>>
           ELSE IF parsed.ok
           THEN /\ records' = [records EXCEPT
                                 ![r] = Append(@, parsed.record)]
                /\ load' = [load EXCEPT ![r] =
                              [pos |-> @.pos + 1,
                               line_number |-> @.line_number + 1]]
                /\ UNCHANGED <<pc, response>>
           ELSE Fail(r, ErrorReading(parsed.cause))
    /\ UNCHANGED <<env, client, stale, opens, source, op, args, found, prompt,
                   calls, remote, ai_result>>

\* EndOfFile that logs records[-1].question_id without asking whether there
\* is a record: the IndexError of an empty list leaves the handler.
M_EndOfFileLogsLast(r) ==
    /\ pc[r] = "read"
    /\ load[r].pos = Len(source.rows)
    /\ IF records[r] = <<>>
       THEN Fail(r, HTTPException(500, <<"Internal Server Error">>))
       ELSE /\ pc' = [pc EXCEPT ![r] = "loaded"]
            /\ UNCHANGED <<load, records, response>>
    /\ UNCHANGED <<env, client, stale, opens, source, op, args, found, prompt,
                   calls, remote, ai_result>>

EndOfFile(r) ==
    /\ pc[r] = "read"
    /\ load[r].pos = Len(source.rows)
    /\ pc' = [pc EXCEPT ![r] = "loaded"]
    /\ UNCHANGED <<env, client, stale, opens, source, op, args, load, records,
                   found, prompt, calls, remote, ai_result, response>>

(***************************************************************************)
(* main.py: get_question, after the records are loaded.                    *)
(***************************************************************************)

\* Matches, trimming the query before the comparison.
M_MatchesTrimmedQuery(record, round, value) ==
    record.round = Strip(round) /\ record.value = Strip(value)

Matches(record, round, value) ==
    record.round = round /\ record.value = value

MatchingRecords(recs, round, value) ==
    SelectSeq(recs, LAMBDA record : Matches(record, round, value))


\* QuestionPayload returning the whole record.
M_QuestionPayloadWholeRecord(selected_record) == selected_record

\* QuestionPayload numbering the question by its place among the records
\* instead of by its line in the file.
M_QuestionPayloadByPosition(selected_record) ==
    [question_id |-> selected_record.question_id - 1,
     round       |-> selected_record.round,
     category    |-> selected_record.category,
     value       |-> selected_record.value,
     question    |-> selected_record.question]

QuestionPayload(selected_record) ==
    [question_id |-> selected_record.question_id,
     round       |-> selected_record.round,
     category    |-> selected_record.category,
     value       |-> selected_record.value,
     question    |-> selected_record.question]

NoQuestionsFound(round, value) ==
    HTTPException(404, <<"No questions found for round='">> \o round
                       \o <<"' and value='">> \o value \o <<"'">>)

\* random.choice(matching_records) may return any element of the list.
SelectQuestion(r, choice) ==
    /\ pc[r] = "loaded"
    /\ op[r] = "get_question"
    /\ LET matching_records ==
               MatchingRecords(records[r], args[r].round, args[r].value)
       IN  IF matching_records = <<>>
           THEN /\ choice = 1
                /\ response' = [response EXCEPT ![r] =
                      NoQuestionsFound(args[r].round, args[r].value)]
           ELSE /\ choice \in 1..Len(matching_records)
                /\ response' = [response EXCEPT ![r] =
                      [status |-> 200,
                       body |-> QuestionPayload(matching_records[choice])]]
    /\ pc' = [pc EXCEPT ![r] = "done"]
    /\ UNCHANGED <<env, client, stale, opens, source, op, args, load, records,
                   found, prompt, calls, remote, ai_result>>

(***************************************************************************)
(* The remote chat-completion service.  The content of a reply is a text   *)
(* seen as its sequence of JSON tokens; json.loads is a parser of them.    *)
(***************************************************************************)
LBrace   == [t |-> "punct", v |-> "{"]
RBrace   == [t |-> "punct", v |-> "}"]
LBracket == [t |-> "punct", v |-> "["]
RBracket == [t |-> "punct", v |-> "]"]
Colon    == [t |-> "punct", v |-> ":"]
Comma    == [t |-> "punct", v |-> ","]
Lit(w)   == [t |-> "lit", v |-> w]      \* true, false, null
Str(w)   == [t |-> "str", v |-> w]      \* "w"
Num(w)   == [t |-> "num", v |-> w]      \* a number, by its digits
Word(w)  == [t |-> "word", v |-> w]     \* prose: no JSON token

JTrue  == [t |-> "bool", v |-> TRUE]
JFalse == [t |-> "bool", v |-> FALSE]
JNull  == [t |-> "null"]
JStr(text) == [t |-> "str", v |-> text]
JNum(n)    == [t |-> "num", v |-> n]
JList(xs)  == [t |-> "list", v |-> xs]
JObj(ms)   == [t |-> "obj", v |-> ms]   \* members <<key, value>>, in order

ParseError == [ok |-> FALSE]
Parsed(val, rest) == [ok |-> TRUE, val |-> val, rest |-> rest]

RECURSIVE ParseValue(_), ParseElements(_, _), ParseMembers(_, _)
ParseValue(toks) ==
    IF toks = <<>> THEN ParseError
    ELSE LET h == Head(toks)
             rest == Tail(toks)
         IN  CASE h.t = "lit" /\ h.v = "true"  -> Parsed(JTrue, rest)
               [] h.t = "lit" /\ h.v = "false" -> Parsed(JFalse, rest)
               [] h.t = "lit" /\ h.v = "null"  -> Parsed(JNull, rest)
               [] h.t = "str" -> Parsed(JStr(<<h.v>>), rest)
               [] h.t = "num" -> Parsed(JNum(DigitsValue(<<h.v>>)), rest)
               [] h = LBracket ->
                    IF rest # <<>> /\ Head(rest) = RBracket
                    THEN Parsed(JList(<<>>), Tail(rest))
                    ELSE ParseElements(rest, <<>>)
               [] h = LBrace ->
                    IF rest # <<>> /\ Head(rest) = RBrace
                    THEN Parsed(JObj(<<>>), Tail(rest))
                    ELSE ParseMembers(rest, <<>>)
               [] OTHER -> ParseError

ParseElements(toks, acc) ==
    LET x == ParseValue(toks)
    IN  IF ~x.ok \/ x.rest = <<>> THEN ParseError
        ELSE IF Head(x.rest) = RBracket
        THEN Parsed(JList(Append(acc, x.val)), Tail(x.rest))
        ELSE IF Head(x.rest) = Comma
        THEN ParseElements(Tail(x.rest), Append(acc, x.val))
        ELSE ParseError

ParseMembers(toks, acc) ==
    IF Len(toks) < 2 \/ toks[1].t # "str" \/ toks[2] # Colon THEN ParseError
    ELSE LET x == ParseValue(SubSeq(toks, 3, Len(toks)))
         IN  IF ~x.ok \/ x.rest = <<>> THEN ParseError
             ELSE IF Head(x.rest) = RBrace
             THEN Parsed(JObj(Append(acc, <<toks[1].v, x.val>>)), Tail(x.rest))
             ELSE IF Head(x.rest) = Comma
             THEN ParseMembers(Tail(x.rest), Append(acc, <<toks[1].v, x.val>>))
             ELSE ParseError

\* JsonLoads that stops at the end of the first value and ignores the rest
\* of the text.
M_JsonLoadsFirstValue(toks) ==
    LET x == ParseValue(toks)
    IN  IF x.ok THEN [ok |-> TRUE, val |-> x.val]
        ELSE [ok |-> FALSE]

\* json.loads(text): the value, or JSONDecodeError (also for text that goes
\* on after the value).
JsonLoads(toks) ==
    LET x == ParseValue(toks)
    IN  IF x.ok /\ x.rest = <<>> THEN [ok |-> TRUE, val |-> x.val]
        ELSE [ok |-> FALSE]

\* DictGet without a default: None for a key that is not there.
M_DictGetNone(obj, key, default) ==
    LET hits == {i \in 1..Len(obj.v) : obj.v[i][1] = key}
    IN  IF hits = {} THEN JNull
        ELSE obj.v[CHOOSE i \in hits : \A j \in hits : j <= i][2]

\* dict.get(key, default): the last member with the key wins.
DictGet(obj, key, default) ==
    LET hits == {i \in 1..Len(obj.v) : obj.v[i][1] = key}
    IN  IF hits = {} THEN default
        ELSE obj.v[CHOOSE i \in hits : \A j \in hits : j <= i][2]

\* The contents a reply may carry.
Verdict(is_correct, explanation) ==
    <<LBrace, Str("is_correct"), Colon, is_correct, Comma,
      Str("explanation"), Colon, explanation, RBrace>>

Contents ==
    { Verdict(Lit("true"), Str("Yes, Paris.")),
      Verdict(Lit("false"), Str("No, it is Paris.")),
      Verdict(Lit("null"), Str("Yes, Paris.")),
      Verdict(Str("maybe"), Str("Yes, Paris.")),
      Verdict(Str("yes"), Str("Yes, Paris.")),
      Verdict(Lit("true"), Num("7")),
      Verdict(Lit("true"), Lit("null")),
      <<LBrace, Str("explanation"), Colon, Str("Yes, Paris."), RBrace>>,
      <<LBrace, Str("is_correct"), Colon, Lit("true"), RBrace>>,
      <<LBrace, RBrace>>,
      <<LBrace, Str("is_correct"), Colon, Lit("true"), Comma,
        Str("explanation")>>,
      <<Word("Sure!")>> \o Verdict(Lit("true"), Str("Yes, Paris.")),
      Verdict(Lit("true"), Str("Yes, Paris.")) \o <<Word("Hope this helps")>>,
      <<>>,
      <<LBracket, Lit("true"), Comma, Str("Yes, Paris."), RBracket>>,
      <<Str("Yes, Paris.")>>,
      <<Num("1")>>,
      <<Lit("true")>>,
      <<Lit("null")>> }

\* What the remote service does with one request: the transport fails, or
\* a response arrives with a status code and a body.
NoBody == [json |-> FALSE, has_choices |-> FALSE, choices |-> <<>>]
TransportError(name) ==
    [kind |-> "error", error |-> name, status_code |-> 0, body |-> NoBody]
HttpResponse(status_code, body) ==
    [kind |-> "response", error |-> "", status_code |-> status_code,
     body |-> body]
ContentOf(toks) == [none |-> FALSE, text |-> toks]
NullContent == [none |-> TRUE, text |-> <<>>]
Completion(content) ==
    [json |-> TRUE, has_choices |-> TRUE, choices |-> <<content>>]

RemoteOutcomes ==
    { TransportError("ConnectError"), TransportError("ReadTimeout"),
      HttpResponse(429, NoBody), HttpResponse(500, NoBody),
      HttpResponse(200, NoBody),
      HttpResponse(200, [json |-> TRUE, has_choices |-> FALSE,
                         choices |-> <<>>]),
      HttpResponse(200, [json |-> TRUE, has_choices |-> TRUE,
                         choices |-> <<>>]),
      HttpResponse(200, Completion(NullContent)) }
    \cup {HttpResponse(200, Completion(ContentOf(c))) : c \in Contents}

(***************************************************************************)
(* openai_client.py: verify_trivia_answer.                                 *)
(***************************************************************************)
\* BuildPrompt that leaves the category out.
M_BuildPromptWithoutCategory(question, correct_answer, user_answer, category) ==
    <<"You are a trivia judge. Given the following trivia question">>
    \o <<", evaluate if the user's answer is correct.", "Question: ">>
    \o question \o <<"Correct Answer: ">> \o correct_answer
    \o <<"User's Answer: ">> \o user_answer
    \o <<"Respond with a JSON object">>

\* The prompt of the request, from its four parameters.
BuildPrompt(question, correct_answer, user_answer, category) ==
    LET category_context ==
            IF category # <<>>
            THEN <<" from the category '">> \o category \o <<"'">>
            ELSE <<>>
    IN  <<"You are a trivia judge. Given the following trivia question">>
        \o category_context
        \o <<", evaluate if the user's answer is correct.", "Question: ">>
        \o question \o <<"Correct Answer: ">> \o correct_answer
        \o <<"User's Answer: ">> \o user_answer
        \o <<"Respond with a JSON object">>

Raised(message, cause) ==
    [state |-> "raised", message |-> message, cause |-> cause]
Returned(is_correct, explanation, raw) ==
    [state |-> "returned", is_correct |-> is_correct,
     explanation |-> explanation, raw_ai_response |-> raw]

\* RequestFailed with a verdict of its own for a timeout.
M_RequestFailedTimeoutVerdict(cause) ==
    IF cause = "ReadTimeout"
    THEN Returned(JFalse, JStr(<<"The request timed out">>), <<>>)
    ELSE Raised("OpenAI API request failed: ", cause)

\* RequestFailed answered by the judge itself, with its default verdict.
M_RequestFailedReturnsDefault(cause) ==
    Returned(JFalse, JStr(<<"Error parsing AI response">>), <<>>)

RequestFailed(cause) == Raised("OpenAI API request failed: ", cause)
UnexpectedError(cause) == Raised("Unexpected error calling OpenAI API: ", cause)

\* response.raise_for_status()
IsSuccess(status_code) == status_code >= 200 /\ status_code <= 299

\* ParseContent that answers a value that is no object with the default
\* verdict of the JSONDecodeError branch.
M_ParseContentNonObjectDefault(content) ==
    LET parsed_response == JsonLoads(content.text)
    IN  IF content.none THEN UnexpectedError("TypeError")
        ELSE IF ~parsed_response.ok \/ parsed_response.val.t # "obj"
        THEN Returned(JFalse, JStr(<<"Error parsing AI response">>),
                      content.text)
        ELSE Returned(
                DictGet(parsed_response.val, "is_correct", JFalse),
                DictGet(parsed_response.val, "explanation",
                        JStr(<<"Unable to parse AI response">>)),
                content.text)

\* The parsing of the content of the first completion.
ParseContent(content) ==
    LET parsed_response == JsonLoads(content.text)
    IN  IF content.none THEN UnexpectedError("TypeError")
        ELSE IF ~parsed_response.ok
        THEN Returned(JFalse, JStr(<<"Error parsing AI response">>),
                      content.text)
        ELSE IF parsed_response.val.t # "obj"
        THEN UnexpectedError("AttributeError")
        ELSE Returned(
                DictGet(parsed_response.val, "is_correct", JFalse),
                DictGet(parsed_response.val, "explanation",
                        JStr(<<"Unable to parse AI response">>)),
                content.text)

\* What verify_trivia_answer does once the remote service has answered.
VerifyTriviaAnswer(outcome) ==
    IF outcome.kind = "error" THEN RequestFailed(outcome.error)
    ELSE IF ~IsSuccess(outcome.status_code)
    THEN RequestFailed("HTTPStatusError")
    ELSE IF ~outcome.body.json THEN UnexpectedError("JSONDecodeError")
    ELSE IF ~outcome.body.has_choices THEN UnexpectedError("KeyError")
    ELSE IF outcome.body.choices = <<>> THEN UnexpectedError("IndexError")
    ELSE ParseContent(outcome.body.choices[1])

(***************************************************************************)
(* data_store.py: get_record_by_question_id, after the records are loaded. *)
(***************************************************************************)

\* GetRecordByQuestionId taking the id for the position in the list.
M_GetRecordByPosition(recs, question_id) ==
    IF question_id \in 1..Len(recs)
    THEN [some |-> TRUE, record |-> recs[question_id]]
    ELSE NoRecord

\* GetRecordByQuestionId with the return of the loop variable after the
\* loop: the last record instead of None.
M_GetRecordReturnsLast(recs, question_id) ==
    LET hits == {i \in 1..Len(recs) : recs[i].question_id = question_id}
    IN  IF hits # {}
        THEN [some |-> TRUE,
              record |-> recs[CHOOSE i \in hits : \A j \in hits : i <= j]]
        ELSE IF recs # <<>>
        THEN [some |-> TRUE, record |-> recs[Len(recs)]]
        ELSE NoRecord

GetRecordByQuestionId(recs, question_id) ==
    LET hits == {i \in 1..Len(recs) : recs[i].question_id = question_id}
    IN  IF hits = {} THEN NoRecord
        ELSE [some |-> TRUE,
              record |-> recs[CHOOSE i \in hits : \A j \in hits : i <= j]]

(***************************************************************************)
(* main.py: verify_answer.                                                 *)
(***************************************************************************)
\* The validation of the response model: correct is a bool, ai_response a
\* str.  lax_str says whether the installed validation turns a number
\* given for a str into its digits, or rejects it.
TrueWords  == {"1", "on", "t", "true", "y", "yes"}
FalseWords == {"0", "off", "f", "false", "n", "no"}

ValidateBool(j) ==
    CASE j.t = "bool" -> [ok |-> TRUE, val |-> j.v]
      [] j.t = "num" ->
            IF j.v \in {0, 1} THEN [ok |-> TRUE, val |-> (j.v = 1)]
            ELSE [ok |-> FALSE]
      [] j.t = "str" ->
            IF Len(j.v) = 1 /\ j.v[1] \in TrueWords \cup FalseWords
            THEN [ok |-> TRUE, val |-> (j.v[1] \in TrueWords)]
            ELSE [ok |-> FALSE]
      [] OTHER -> [ok |-> FALSE]

ValidateStr(j, lax_str) ==
    CASE j.t = "str" -> [ok |-> TRUE, val |-> j.v]
      [] j.t = "num" /\ lax_str -> [ok |-> TRUE, val |-> <<ToString(j.v)>>]
      [] j.t = "bool" /\ lax_str ->
            [ok |-> TRUE, val |-> IF j.v THEN <<"True">> ELSE <<"False">>]
      [] OTHER -> [ok |-> FALSE]

VerifyAnswerResponse(correct, ai_response, lax_str) ==
    LET c == ValidateBool(correct)
        a == ValidateStr(ai_response, lax_str)
    IN  IF c.ok /\ a.ok
        THEN [ok |-> TRUE,
              body |-> [correct |-> c.val, ai_response |-> a.val]]
        ELSE [ok |-> FALSE]

QuestionNotFound(question_id) ==
    HTTPException(404, <<"Question with ID ", ToString(question_id),
                         " not found">>)


\* Fallback, comparing the user's answer with its padding removed.
M_FallbackTrimmed(record, user_answer) ==
    [status |-> 200,
     body |-> [correct |-> (Strip(user_answer) = record.answer),
               ai_response |-> record.answer]]

\* except Exception: the simple string comparison.
Fallback(record, user_answer) ==
    [status |-> 200,
     body |-> [correct |-> (user_answer = record.answer),
               ai_response |-> record.answer]]


\* VerifyOutcome without the except branch: the judge's exception and the
\* validation error leave the handler.
M_VerifyOutcomeNoFallback(result, record, user_answer, lax_str) ==
    IF result.state = "raised"
    THEN HTTPException(500, <<"Internal Server Error">>)
    ELSE LET model == VerifyAnswerResponse(result.is_correct,
                                           result.explanation, lax_str)
         IN  IF model.ok THEN [status |-> 200, body |-> model.body]
             ELSE HTTPException(500, <<"Internal Server Error">>)

\* The try block and its except branch, given what the judge did.
VerifyOutcome(result, record, user_answer, lax_str) ==
    IF result.state = "raised" THEN Fallback(record, user_answer)
    ELSE LET model == VerifyAnswerResponse(result.is_correct,
                                           result.explanation, lax_str)
         IN  IF model.ok THEN [status |-> 200, body |-> model.body]
             ELSE Fallback(record, user_answer)

\* record = trivia_store.get_record_by_question_id(...); then either the
\* 404 or the request to the remote service leaves.
LookupRecord(r) ==
    /\ pc[r] = "loaded"
    /\ op[r] = "verify_answer"
    /\ LET record == GetRecordByQuestionId(records[r], args[r].question_id)
       IN  /\ found' = [found EXCEPT ![r] = record]
           /\ IF ~record.some
              THEN /\ pc' = [pc EXCEPT ![r] = "done"]
                   /\ response' = [response EXCEPT ![r] =
                         QuestionNotFound(args[r].question_id)]
                   /\ UNCHANGED <<prompt, calls>>
              ELSE /\ pc' = [pc EXCEPT ![r] = "awaiting"]
                   /\ prompt' = [prompt EXCEPT ![r] =
                         [built |-> TRUE,
                          authorization |-> <<"Bearer ">> \o client.api_key,
                          text |-> BuildPrompt(record.record.question,
                                               record.record.answer,
                                               args[r].user_answer,
                                               record.record.category)]]
                   /\ calls' = [calls EXCEPT ![r] = @ + 1]
                   /\ UNCHANGED response
    /\ UNCHANGED <<env, client, stale, opens, source, op, args, load, records,
                   remote, ai_result>>

\* ReceiveReply with one more attempt after a failure of the judge.
M_ReceiveReplyRetrying(r, outcome, lax_str) ==
    /\ pc[r] = "awaiting"
    /\ LET result == VerifyTriviaAnswer(outcome)
       IN  IF result.state = "raised" /\ calls[r] < 2
           THEN /\ calls' = [calls EXCEPT ![r] = @ + 1]
                /\ UNCHANGED <<pc, remote, ai_result, response>>
           ELSE /\ remote' = [remote EXCEPT ![r] = outcome]
                /\ ai_result' = [ai_result EXCEPT ![r] = result]
                /\ response' = [response EXCEPT ![r] =
                      VerifyOutcome(result, found[r].record,
                                    args[r].user_answer, lax_str)]
                /\ pc' = [pc EXCEPT ![r] = "done"]
                /\ UNCHANGED calls
    /\ UNCHANGED <<env, client, stale, opens, source, op, args, load, records,
                   found, prompt>>

\* The remote service answers, or the transport gives up; the judge and then
\* the handler finish.
ReceiveReply(r, outcome, lax_str) ==
    /\ pc[r] = "awaiting"
    /\ LET result == VerifyTriviaAnswer(outcome)
       IN  /\ remote' = [remote EXCEPT ![r] = outcome]
           /\ ai_result' = [ai_result EXCEPT ![r] = result]
           /\ response' = [response EXCEPT ![r] =
                 VerifyOutcome(result, found[r].record,
                               args[r].user_answer, lax_str)]
    /\ pc' = [pc EXCEPT ![r] = "done"]
    /\ UNCHANGED <<env, client, stale, opens, source, op, args, load, records,
                   found, prompt, calls>>

(***************************************************************************)
(* The response is delivered and the slot is free again; between requests  *)
(* the operator of the service may replace the dataset.                    *)
(***************************************************************************)
Return(r) ==
    /\ pc[r] = "done"
    /\ pc' = [pc EXCEPT ![r] = "idle"]
    /\ op' = [op EXCEPT ![r] = "none"]
    /\ args' = [args EXCEPT ![r] = NoArgs]
    /\ load' = [load EXCEPT ![r] = NoLoad]
    /\ records' = [records EXCEPT ![r] = <<>>]
    /\ found' = [found EXCEPT ![r] = NoRecord]
    /\ prompt' = [prompt EXCEPT ![r] = NoPrompt]
    /\ calls' = [calls EXCEPT ![r] = 0]
    /\ remote' = [remote EXCEPT ![r] = NoRemote]
    /\ ai_result' = [ai_result EXCEPT ![r] = NoResult]
    /\ response' = [response EXCEPT ![r] = NoResponse]
    /\ stale' = [stale EXCEPT ![r] = FALSE]
    /\ opens' = [opens EXCEPT ![r] = 0]
    /\ UNCHANGED <<env, client, source>>

ReplaceSource(s) ==
    /\ \A r \in AllSlots : pc[r] = "idle"
    /\ s # source
    /\ source' = s
    /\ UNCHANGED <<env, client, stale, opens, pc, op, args, load, records,
                   found, prompt, calls, remote, ai_result, response>>

\* The edits of the file between two loads: its rows put in the opposite
\* order, its first row deleted, all its rows deleted.
Reverse(seq) == [i \in 1..Len(seq) |-> seq[Len(seq) + 1 - i]]
Edits(src) ==
    IF ~src.exists \/ src.rows = <<>> THEN {}
    ELSE {[src EXCEPT !.rows = Reverse(@)], [src EXCEPT !.rows = Tail(@)],
          [src EXCEPT !.rows = <<>>]}

\* The dataset is edited while requests are under way or their responses
\* are still held: what a slot has read is from then on out of date.  A
\* load in progress reads one version of the file.
ReplaceSourceHeld(s) ==
    /\ s \in Edits(source)
    /\ \E r \in AllSlots : pc[r] # "idle"
    /\ \A r \in AllSlots : pc[r] # "read"
    /\ s # source
    /\ source' = s
    /\ stale' = [r \in AllSlots |->
                    stale[r] \/ pc[r] \in {"loaded", "awaiting", "done"}]
    /\ UNCHANGED <<env, client, opens, pc, op, args, load, records, found,
                   prompt, calls, remote, ai_result, response>>

\* The deployment of the service as shipped: started by its server, with a
\* key in open_ai_api_key.txt.
ProductionEnv == [test |-> FALSE, key_file |-> KeyFileWith(<<"sk-live", "\n">>)]

InitWith(envs, srcs) ==
    /\ env \in envs
    /\ client = NotStarted
    /\ source \in srcs
    /\ stale = [r \in AllSlots |-> FALSE]
    /\ opens = [r \in AllSlots |-> 0]
    /\ pc = [r \in AllSlots |-> "idle"]
    /\ op = [r \in AllSlots |-> "none"]
    /\ args = [r \in AllSlots |-> NoArgs]
    /\ load = [r \in AllSlots |-> NoLoad]
    /\ records = [r \in AllSlots |-> <<>>]
    /\ found = [r \in AllSlots |-> NoRecord]
    /\ prompt = [r \in AllSlots |-> NoPrompt]
    /\ calls = [r \in AllSlots |-> 0]
    /\ remote = [r \in AllSlots |-> NoRemote]
    /\ ai_result = [r \in AllSlots |-> NoResult]
    /\ response = [r \in AllSlots |-> NoResponse]

Init == InitWith({ProductionEnv}, Sources)

\* The steps of the slots: those of G take get_question requests, those of
\* V verify_answer requests, with the inputs drawn from the given sets.
Step(G, V, srcs, rounds, values, ids, answers, outcomes) ==
    LET S == G \cup V
    IN
    \/ \E r \in G, round \in rounds, value \in values :
          StartGetQuestion(r, round, value)
    \/ \E r \in V, question_id \in ids, user_answer \in answers :
          StartVerifyAnswer(r, question_id, user_answer)
    \/ \E r \in S : OpenSource(r)
    \/ \E r \in S : ReadRow(r)
    \/ \E r \in S : EndOfFile(r)
    \/ \E r \in S, choice \in 1..MaxRows : SelectQuestion(r, choice)
    \/ \E r \in S : LookupRecord(r)
    \/ \E r \in S, outcome \in outcomes, lax_str \in BOOLEAN :
          ReceiveReply(r, outcome, lax_str)
    \/ \E r \in S : Return(r)
    \/ \E s \in srcs : ReplaceSource(s)

Next ==
    \/ Startup
    \/ Step(Slots, Slots, Sources, Rounds, Values, QuestionIds, UserAnswers,
            RemoteOutcomes)

Spec == Init /\ [][Next]_vars

(***************************************************************************)
(* A session: a client gets a question in slot 1, keeps the response, and  *)
(* has an answer verified in slot 2, while the dataset may be replaced.    *)
(***************************************************************************)
SessionRows == {RowParis, RowRome}
SessionSources ==
    {MissingSource}
    \cup {[exists |-> TRUE, readable |-> TRUE, header |-> HeaderPlain,
           rows |-> rs] : rs \in SeqsUpTo(SessionRows, MaxRows)}
SessionRounds == {<<"Jeopardy!">>}
SessionValues == {<<"$200">>, <<"$400">>}
SessionIds == 1..(MaxRows + 1)
SessionAnswers == {<<"Paris">>, <<"Rome">>}
SessionOutcomes ==
    { TransportError("ReadTimeout"),
      HttpResponse(200, Completion(ContentOf(
          Verdict(Lit("false"), Str("No, it is Paris."))))) }

SessionInit == InitWith({ProductionEnv}, SessionSources)

SessionNext ==
    \/ Startup
    \/ Step({1}, {2}, SessionSources, SessionRounds, SessionValues,
            SessionIds, SessionAnswers, SessionOutcomes)
    \/ \E s \in SessionSources : ReplaceSourceHeld(s)

SessionSpec == SessionInit /\ [][SessionNext]_vars

(***************************************************************************)
(* Two requests of any kind side by side, their steps interleaved in any   *)
(* order, on a dataset that changes only while no request is under way.    *)
(***************************************************************************)
ConcurrentRows == {RowParis, RowBadShow}
ConcurrentSources ==
    {MissingSource}
    \cup {[exists |-> TRUE, readable |-> TRUE, header |-> HeaderPlain,
           rows |-> rs] : rs \in SeqsUpTo(ConcurrentRows, MaxRows)}
ConcurrentAnswers == {<<"Paris">>, <<"paris">>}
ConcurrentOutcomes ==
    { TransportError("ReadTimeout"), TransportError("ConnectError"),
      HttpResponse(429, NoBody),
      HttpResponse(200, Completion(ContentOf(
          Verdict(Lit("true"), Str("Yes, Paris."))))) }

ConcurrentInit == InitWith({ProductionEnv}, ConcurrentSources)

ConcurrentNext ==
    \/ Startup
    \/ Step(AllSlots, AllSlots, ConcurrentSources, SessionRounds,
            SessionValues, SessionIds, ConcurrentAnswers, ConcurrentOutcomes)

ConcurrentSpec == ConcurrentInit /\ [][ConcurrentNext]_vars

(***************************************************************************)
(* What the claims speak of, stated on the source and on the state.        *)
(***************************************************************************)
Done(r, handler) == pc[r] = "done" /\ op[r] = handler

\* The data lines of a source: csv skips the empty ones.
DataRows(src) == SelectSeq(src.rows, LAMBDA line : line # <<>>)

IsIntegerText(text) ==
    LET t == Strip(text)
    IN  t # <<>> /\ \A i \in 1..Len(t) : t[i] \in Digits

\* A line that get_all_records can turn into a record.
RowLoads(header, line) ==
    /\ Len(line) = 7
    /\ \A i \in 1..7 : Strip(header[i]) = <<ColumnNames[i]>>
    /\ IsIntegerText(line[1])

Loadable(src) ==
    /\ src.exists
    /\ src.readable
    /\ \A i \in 1..Len(DataRows(src)) : RowLoads(src.header, DataRows(src)[i])

HasId(recs, id) == \E i \in 1..Len(recs) : recs[i].question_id = id
WithId(recs, id) == recs[CHOOSE i \in 1..Len(recs) : recs[i].question_id = id]

IsText(x) == \A i \in 1..Len(x) : x[i] \in STRING

(***************************************************************************)
(* C1: in verify_answer, when the record is found and the judge raises,    *)
(* the response is 200 with correct = (user_answer == stored answer), by   *)
(* exact equality of the two strings as given, and ai_response = the       *)
(* stored answer, whether or not the two are equal.                        *)
(***************************************************************************)
C1_FallbackOnJudgeException ==
    \A r \in Slots :
        ( /\ Done(r, "verify_answer")
          /\ HasId(records[r], args[r].question_id)
          /\ ai_result[r].state = "raised" )
        => LET stored == WithId(records[r], args[r].question_id).answer
           IN  /\ response[r].status = 200
               /\ response[r].body.correct = (args[r].user_answer = stored)
               /\ response[r].body.ai_response = stored

\* The judge raised, the user's answer is the stored answer followed by a
\* blank, and the response says it is not correct.
C1_Witness ==
    \E r \in Slots :
        /\ Done(r, "verify_answer")
        /\ ai_result[r].state = "raised"
        /\ found[r].some
        /\ found[r].record.answer = <<"Paris">>
        /\ args[r].user_answer = <<"Paris", " ">>
        /\ response[r].status = 200
        /\ response[r].body.correct = FALSE
        /\ response[r].body.ai_response = <<"Paris">>

(***************************************************************************)
(* C2: in verify_answer, when the record is found and the judge returns    *)
(* without raising, the response carries the judge's is_correct and        *)
(* explanation unchanged, and the exact-match fallback is not used.        *)
(***************************************************************************)
C2_JudgeVerdictVerbatim ==
    \A r \in Slots :
        ( /\ Done(r, "verify_answer")
          /\ HasId(records[r], args[r].question_id)
          /\ ai_result[r].state = "returned" )
        => /\ response[r].status = 200
           /\ ai_result[r].is_correct = JFalse
                \/ ai_result[r].is_correct = JTrue
           /\ response[r].body.correct = ai_result[r].is_correct.v
           /\ ai_result[r].explanation = JStr(response[r].body.ai_response)

(***************************************************************************)
(* C3: verify_answer with a question_id that no loaded record has, the     *)
(* dataset being loadable, ends with 404 and a detail that names the id;   *)
(* it makes no call to the judge and returns no verdict.                   *)
(***************************************************************************)
C3_AbsentIdIsNotFound ==
    \A r \in Slots :
        ( /\ Done(r, "verify_answer")
          /\ Loadable(source)
          /\ ~HasId(records[r], args[r].question_id) )
        => /\ response[r] =
                [status |-> 404,
                 detail |-> <<"Question with ID ",
                              ToString(args[r].question_id), " not found">>]
           /\ calls[r] = 0
           /\ ai_result[r] = NoResult

\* A dataset with records, asked for the id 1 that no record has.
C3_Witness ==
    \E r \in Slots :
        /\ Done(r, "verify_answer")
        /\ Loadable(source)
        /\ records[r] # <<>>
        /\ args[r].question_id = 1
        /\ response[r].status = 404

(***************************************************************************)
(* C4: for an id found in a loadable dataset, verify_answer ends with a    *)
(* 200 response carrying a boolean correct and a string ai_response,       *)
(* whatever the remote service did.                                        *)
(***************************************************************************)
C4_RemoteFailureNeverSurfaces ==
    \A r \in Slots :
        ( /\ Done(r, "verify_answer")
          /\ Loadable(source)
          /\ HasId(records[r], args[r].question_id) )
        => /\ remote[r] \in RemoteOutcomes
           /\ response[r].status = 200
           /\ response[r].body.correct \in BOOLEAN
           /\ IsText(response[r].body.ai_response)

\* A reply whose is_correct is null: the request still ends with 200.
C4_Witness ==
    \E r \in Slots :
        /\ Done(r, "verify_answer")
        /\ ai_result[r].state = "returned"
        /\ ai_result[r].is_correct = JNull
        /\ response[r].status = 200

(***************************************************************************)
(* C5: the response of get_question consists of question_id, round,        *)
(* category, value and question of one loaded record, and of nothing       *)
(* else: the answer is not in it.                                          *)
(***************************************************************************)
C5_PayloadWithoutAnswer ==
    \A r \in Slots :
        (Done(r, "get_question") /\ response[r].status = 200)
        => /\ DOMAIN response[r].body =
                {"question_id", "round", "category", "value", "question"}
           /\ \E i \in 1..Len(records[r]) :
                /\ response[r].body.question_id = records[r][i].question_id
                /\ response[r].body.round = records[r][i].round
                /\ response[r].body.category = records[r][i].category
                /\ response[r].body.value = records[r][i].value
                /\ response[r].body.question = records[r][i].question

\* A question was returned for a record that has an answer.
C5_Witness ==
    \E r \in Slots :
        /\ Done(r, "get_question")
        /\ response[r].status = 200
        /\ response[r].body.question_id = 3
        /\ records[r][2].answer = <<"Rome">>

(***************************************************************************)
(* C6: the candidates of get_question(round, value) are the loaded records *)
(* whose round and value equal the query as given; the record returned is  *)
(* one of them, and each of them can be the one returned.                  *)
(***************************************************************************)
IsCandidate(record, r) ==
    record.round = args[r].round /\ record.value = args[r].value

C6_ResultIsAnyCandidate ==
    \A r \in Slots :
        /\ (Done(r, "get_question") /\ response[r].status = 200)
           => \E i \in 1..Len(records[r]) :
                /\ IsCandidate(records[r][i], r)
                /\ response[r].body.question_id = records[r][i].question_id
                /\ response[r].body.question = records[r][i].question
        /\ (pc[r] = "loaded" /\ op[r] = "get_question")
           => \A i \in 1..Len(records[r]) :
                IsCandidate(records[r][i], r)
                => ENABLED ( /\ \E choice \in 1..Len(records[r]) :
                                    SelectQuestion(r, choice)
                             /\ response'[r].status = 200
                             /\ response'[r].body.question_id =
                                    records[r][i].question_id )

\* Two candidates, and the second one was returned.
C6_Witness ==
    \E r \in Slots :
        /\ Done(r, "get_question")
        /\ Len(records[r]) = 2
        /\ IsCandidate(records[r][1], r)
        /\ IsCandidate(records[r][2], r)
        /\ response[r].status = 200
        /\ response[r].body.question_id = records[r][2].question_id

C9_LookupById ==
    \A r \in Slots :
        ( /\ op[r] = "verify_answer"
          /\ pc[r] \in {"awaiting", "done"}
          /\ Loadable(source) )
        => LET id == args[r].question_id
               hits == {i \in 1..Len(records[r]) :
                            records[r][i].question_id = id}
           IN  /\ response[r].status # 500
               /\ Cardinality(hits) <= 1
               /\ hits = {} <=> ~found[r].some
               /\ \A i \in hits : found[r].record = records[r][i]
               /\ (id <= 1 \/ id > Len(DataRows(source)) + 1)
                    => ~found[r].some

\* The id of the second of two records was looked up and found.
C9_Witness ==
    \E r \in Slots :
        /\ op[r] = "verify_answer"
        /\ pc[r] = "awaiting"
        /\ Len(records[r]) = 2
        /\ args[r].question_id = 3
        /\ found[r].some
        /\ found[r].record = records[r][2]

(***************************************************************************)
(* C10: if a data row's show-number field is not an integer, the load      *)
(* fails as a whole: the request ends with 500 and a detail that starts    *)
(* with "Error reading data source" and goes on with the cause, and no     *)
(* record is returned, not even those of the rows before the bad one.      *)
(***************************************************************************)
HasBadShowNumber(src) ==
    \E i \in 1..Len(DataRows(src)) :
        DataRows(src)[i] # <<>> /\ ~IsIntegerText(DataRows(src)[i][1])

\* The first data row that does not load is one with a bad show number.
FirstFailureIsShowNumber(src) ==
    \E i \in 1..Len(DataRows(src)) :
        /\ ~IsIntegerText(DataRows(src)[i][1])
        /\ \A j \in 1..(i - 1) : RowLoads(src.header, DataRows(src)[j])

C10_BadShowNumberFailsLoad ==
    \A r \in Slots :
        ( /\ pc[r] = "done"
          /\ source.exists /\ source.readable
          /\ HasBadShowNumber(source) )
        => /\ response[r].status = 500
           /\ response[r].detail[1] = "Error reading data source: "
           /\ Len(response[r].detail) > 1
           /\ FirstFailureIsShowNumber(source)
                => response[r].detail[2] =
                        "invalid literal for int() with base 10: '"
           /\ records[r] = <<>>
           /\ ~found[r].some

\* A good row, then a row with a bad show number: the request failed.
C10_Witness ==
    \E r \in Slots :
        /\ pc[r] = "done"
        /\ Len(source.rows) = 2
        /\ RowLoads(source.header, source.rows[1])
        /\ source.rows[2] # <<>>
        /\ ~IsIntegerText(source.rows[2][1])
        /\ response[r].status = 500

C12_MissingSourceIsNotFound ==
    \A r \in Slots :
        (pc[r] = "done" /\ ~source.exists) => response[r].status = 404

\* The reply of a request that got a first completion with text content.
HasContent(r) ==
    /\ remote[r].kind = "response"
    /\ IsSuccess(remote[r].status_code)
    /\ remote[r].body.json
    /\ remote[r].body.has_choices
    /\ remote[r].body.choices # <<>>
    /\ ~remote[r].body.choices[1].none

ContentText(r) == remote[r].body.choices[1].text

\* The content is an object of the two members the prompt asks for, a
\* boolean is_correct and a string explanation.
IsExpectedStructure(toks) ==
    /\ Len(toks) = 9
    /\ toks = Verdict(toks[4], toks[8])
    /\ toks[4] \in {Lit("true"), Lit("false")}
    /\ toks[8].t = "str"

\* The contents that are no JSON text: cut short, wrapped in prose, empty.
InvalidJsonContents ==
    { <<LBrace, Str("is_correct"), Colon, Lit("true"), Comma,
        Str("explanation")>>,
      <<Word("Sure!")>> \o Verdict(Lit("true"), Str("Yes, Paris.")),
      Verdict(Lit("true"), Str("Yes, Paris.")) \o <<Word("Hope this helps")>>,
      <<>> }

DefaultVerdictResponse ==
    [status |-> 200,
     body |-> [correct |-> FALSE,
               ai_response |-> <<"Error parsing AI response">>]]

C14_OutrightFailureRaises ==
    \A r \in Slots :
        ( /\ Done(r, "verify_answer")
          /\ remote[r].kind \in {"error", "response"}
          /\ ~HasContent(r) )
        => /\ ai_result[r].state = "raised"
           /\ DOMAIN ai_result[r] = {"state", "message", "cause"}
           /\ found[r].some
           /\ response[r] =
                [status |-> 200,
                 body |-> [correct |->
                               (args[r].user_answer = found[r].record.answer),
                           ai_response |-> found[r].record.answer]]

\* The request timed out, the judge raised, and the user's exact answer was
\* accepted by the handler.
C14_Witness ==
    \E r \in Slots :
        /\ Done(r, "verify_answer")
        /\ remote[r].kind = "error"
        /\ remote[r].error = "ReadTimeout"
        /\ ai_result[r].state = "raised"
        /\ ai_result[r].message = "OpenAI API request failed: "
        /\ response[r].status = 200
        /\ response[r].body.correct

\* t has no whitespace at either end.
NoPadding(t) ==
    t = <<>> \/ (t[1] \notin Whitespace /\ t[Len(t)] \notin Whitespace)

\* t is raw without the whitespace at its two ends.
IsTrimOf(t, raw) ==
    /\ NoPadding(t)
    /\ \E i \in 0..Len(raw) :
          /\ \A k \in 1..i : raw[k] \in Whitespace
          /\ i + Len(t) <= Len(raw)
          /\ \A k \in 1..Len(t) : raw[i + k] = t[k]
          /\ \A k \in (i + Len(t) + 1)..Len(raw) : raw[k] \in Whitespace

StringFields(record) ==
    <<record.air_date, record.round, record.category, record.value,
      record.question, record.answer>>

(***************************************************************************)
(* C15: after a successful load, each of air_date, round, category, value, *)
(* question and answer of every record is the field of its source row      *)
(* without the whitespace at its ends, and show_number is the number of    *)
(* the trimmed show-number field, with a padded header as with a plain one.*)
(***************************************************************************)
C15_FieldsAreTrimmed ==
    \A r \in Slots :
        pc[r] \in {"loaded", "awaiting"}
        => /\ Len(records[r]) = Len(DataRows(source))
           /\ \A k \in 1..Len(records[r]) :
                LET line == DataRows(source)[k]
                    fields == StringFields(records[r][k])
                IN  /\ \A i \in 1..6 : IsTrimOf(fields[i], line[i + 1])
                    /\ \E i \in 1..Len(line[1]), j \in 1..Len(line[1]) :
                          LET digits == SubSeq(line[1], i, j)
                          IN  /\ IsTrimOf(digits, line[1])
                              /\ digits # <<>>
                              /\ \A n \in 1..Len(digits) :
                                    digits[n] \in Digits
                              /\ records[r][k].show_number =
                                    DigitsValue(digits)

\* A padded row under a padded header was loaded, and its answer came out
\* without the padding.
C15_Witness ==
    \E r \in Slots :
        /\ pc[r] = "loaded"
        /\ source.header = HeaderPadded
        /\ source.rows # <<>>
        /\ source.rows[1] = RowRome
        /\ records[r][1].answer = <<"Rome">>
        /\ records[r][1].round = <<"Jeopardy!">>

(***************************************************************************)
(* C16: a source that exists, can be read and has no data row under its    *)
(* header loads as the empty list without an error; get_question and       *)
(* verify_answer on it end with 404, never with 500, and the judge is not  *)
(* called.                                                                 *)
(***************************************************************************)
C16_EmptySourceIsNotFound ==
    \A r \in Slots :
        (source.exists /\ source.readable /\ DataRows(source) = <<>>)
        => /\ records[r] = <<>>
           /\ pc[r] = "loaded" => response[r] = NoResponse
           /\ pc[r] # "awaiting"
           /\ pc[r] = "done"
                => /\ response[r].status = 404
                   /\ calls[r] = 0
                   /\ ai_result[r] = NoResult

\* verify_answer on a source with a header only has ended with 404.
C16_Witness ==
    \E r \in Slots :
        /\ Done(r, "verify_answer")
        /\ source.exists /\ source.readable
        /\ source.rows = <<>>
        /\ response[r].status = 404

\* What the service itself holds: the client and the state of the requests.
system == <<client, pc, op, args, load, records, found, prompt, calls,
            remote, ai_result, response>>

(***************************************************************************)
(* C18: no step of the service (startup, the load, get_question, the       *)
(* lookup by id, verify_answer, the delivery of a response or of an error) *)
(* changes the backing source: it is the same after the step as before.    *)
(***************************************************************************)
C18_SourceIsNeverWritten ==
    [][system' # system => source' = source]_vars

\* A verify_answer request went through the load, the lookup and the judge
\* on a source with two data rows.
C18_Witness ==
    \E r \in Slots :
        /\ Done(r, "verify_answer")
        /\ Len(DataRows(source)) = 2
        /\ Len(records[r]) = 2
        /\ calls[r] = 1
        /\ response[r].status = 200

\* Slot 1 holds the 200 response of a get_question and slot 2 is verifying
\* an answer for the question_id of that response, both having read the
\* dataset as it is now.
SameDatasetSession ==
    /\ Done(1, "get_question")
    /\ response[1].status = 200
    /\ op[2] = "verify_answer"
    /\ args[2].question_id = response[1].body.question_id
    /\ ~stale[1]
    /\ ~stale[2]

(***************************************************************************)
(* C17: with the dataset unchanged between the two requests, verify_answer *)
(* for the question_id that get_question returned finds the record the     *)
(* question came from and never ends with 404; when the judge raises and   *)
(* the user's answer equals that record's stored answer, the response is   *)
(* correct = true with ai_response = the stored answer.                    *)
(***************************************************************************)
C17_ReturnedIdResolves ==
    SameDatasetSession
    => LET id == response[1].body.question_id
           given == WithId(records[1], id)
       IN  /\ HasId(records[1], id)
           /\ given.question = response[1].body.question
           /\ pc[2] \in {"awaiting", "done"}
                => /\ found[2].some
                   /\ found[2].record = given
           /\ pc[2] = "done"
                => /\ response[2].status = 200
                   /\ ( /\ ai_result[2].state = "raised"
                        /\ args[2].user_answer = given.answer )
                      => response[2].body =
                            [correct |-> TRUE, ai_response |-> given.answer]

\* The question of the second row was handed out, the judge timed out, and
\* the stored answer given for that id was accepted.
C17_Witness ==
    /\ SameDatasetSession
    /\ pc[2] = "done"
    /\ response[1].body.question_id = 3
    /\ ai_result[2].state = "raised"
    /\ args[2].user_answer = <<"Rome">>
    /\ response[2].body = [correct |-> TRUE, ai_response |-> <<"Rome">>]

\* The records a load of src yields, row by row.
MirrorsSource(recs, src) ==
    /\ Len(recs) = Len(DataRows(src))
    /\ \A k \in 1..Len(recs) :
          /\ recs[k].question_id = k + 1
          /\ IsTrimOf(recs[k].question, DataRows(src)[k][6])
          /\ IsTrimOf(recs[k].answer, DataRows(src)[k][7])

(***************************************************************************)
(* C19: the records of every request are those of the source as it is when *)
(* the request loads it, whatever earlier requests loaded: a request that  *)
(* loaded after the last change of the source has the records of the       *)
(* current source, so that an id handed out before the change can resolve  *)
(* to a different record or to none.                                       *)
(***************************************************************************)
C19_RecordsAreReadAfresh ==
    \A r \in AllSlots :
        (pc[r] \in {"loaded", "awaiting"} /\ ~stale[r])
        => /\ source.exists
           /\ MirrorsSource(records[r], source)
           /\ pc[r] = "awaiting"
                => /\ HasId(records[r], args[r].question_id)
                   /\ found[r].record =
                         WithId(records[r], args[r].question_id)

\* A question was handed out with id 2, the source was replaced, and the
\* verification for id 2 found the record of another question.
C19_Witness ==
    /\ Done(1, "get_question")
    /\ response[1].status = 200
    /\ response[1].body.question_id = 2
    /\ stale[1]
    /\ Done(2, "verify_answer")
    /\ args[2].question_id = 2
    /\ ~stale[2]
    /\ found[2].some
    /\ found[2].record.question # response[1].body.question

(***************************************************************************)
(* The start of the process in every deployment: under test or not, with   *)
(* the key file absent, unreadable, empty or holding a key.                *)
(***************************************************************************)
StartupInit == InitWith(Envs, SessionSources)

StartupNext ==
    \/ Startup
    \/ Step(Slots, Slots, SessionSources, SessionRounds, SessionValues,
            SessionIds, SessionAnswers, SessionOutcomes)

StartupSpec == StartupInit /\ [][StartupNext]_vars

\* The client is made without an api_key argument and there is no key file.
NoCredential == ~env.test /\ ~env.key_file.exists

(***************************************************************************)
(* C20: when the client is made without an api_key argument and there is   *)
(* no key file, its construction fails when the process starts and the     *)
(* process never serves: no request is taken and no call to the remote     *)
(* service is made; a request is only ever taken by a process whose client *)
(* was constructed.                                                        *)
(***************************************************************************)
C20_NoCredentialNoService ==
    /\ NoCredential
       => /\ client.state \in {"starting", "failed"}
          /\ client.api_key = <<>>
          /\ \A r \in AllSlots :
                /\ pc[r] = "idle"
                /\ calls[r] = 0
                /\ ~prompt[r].built
    /\ \A r \in AllSlots : pc[r] # "idle" => client.state = "serving"

\* The process was started outside a test without a key file, and the
\* construction of the client has failed.
C20_Witness ==
    /\ NoCredential
    /\ client.state = "failed"

\* The contents that are JSON texts of a value that is no object: a list, a
\* string, a number, a boolean, null.
NonObjectContents ==
    { <<LBracket, Lit("true"), Comma, Str("Yes, Paris."), RBracket>>,
      <<Str("Yes, Paris.")>>,
      <<Num("1")>>,
      <<Lit("true")>>,
      <<Lit("null")>> }

(***************************************************************************)
(* C26: if the content of the reply is valid JSON but no JSON object, the  *)
(* judge does not return the "Error parsing AI response" default: it       *)
(* raises, and verify_answer answers 200 with the exact-match fallback,    *)
(* whose ai_response is the stored answer.                                 *)
(***************************************************************************)
C26_NonObjectContentRaises ==
    \A r \in Slots :
        ( /\ Done(r, "verify_answer")
          /\ HasContent(r)
          /\ ContentText(r) \in NonObjectContents )
        => /\ ai_result[r].state = "raised"
           /\ ai_result[r].message = "Unexpected error calling OpenAI API: "
           /\ found[r].some
           /\ response[r] =
                [status |-> 200,
                 body |-> [correct |->
                               (args[r].user_answer = found[r].record.answer),
                           ai_response |-> found[r].record.answer]]

\* The content was a list, the judge raised, and the user's exact answer
\* was accepted with the stored answer for explanation.
C26_Witness ==
    \E r \in Slots :
        /\ Done(r, "verify_answer")
        /\ HasContent(r)
        /\ ContentText(r) =
              <<LBracket, Lit("true"), Comma, Str("Yes, Paris."), RBracket>>
        /\ ai_result[r].state = "raised"
        /\ response[r].body = [correct |-> TRUE, ai_response |-> <<"Paris">>]

\* The contents that are JSON objects, each with the value of its member
\* "is_correct" and of its member "explanation", or Absent for a key that
\* the object does not have.
Absent == [t |-> "absent"]
ObjectContent(toks, is_correct, explanation) ==
    [content |-> toks, is_correct |-> is_correct,
     explanation |-> explanation]
ObjectContents ==
    { ObjectContent(Verdict(Lit("true"), Str("Yes, Paris.")),
                    JTrue, JStr(<<"Yes, Paris.">>)),
      ObjectContent(Verdict(Lit("false"), Str("No, it is Paris.")),
                    JFalse, JStr(<<"No, it is Paris.">>)),
      ObjectContent(Verdict(Lit("null"), Str("Yes, Paris.")),
                    JNull, JStr(<<"Yes, Paris.">>)),
      ObjectContent(Verdict(Str("maybe"), Str("Yes, Paris.")),
                    JStr(<<"maybe">>), JStr(<<"Yes, Paris.">>)),
      ObjectContent(Verdict(Lit("true"), Num("7")), JTrue, JNum(7)),
      ObjectContent(
          <<LBrace, Str("explanation"), Colon, Str("Yes, Paris."), RBrace>>,
          Absent, JStr(<<"Yes, Paris.">>)),
      ObjectContent(
          <<LBrace, Str("is_correct"), Colon, Lit("true"), RBrace>>,
          JTrue, Absent),
      ObjectContent(<<LBrace, RBrace>>, Absent, Absent) }

C23_AtMostOneRemoteCall ==
    \A r \in Slots :
        /\ calls[r] \in {0, 1}
        /\ op[r] # "verify_answer" => calls[r] = 0
        /\ remote[r] # NoRemote
           => /\ Done(r, "verify_answer")
              /\ calls[r] = 1
        /\ pc[r] = "awaiting" => calls[r] = 1

\* The call timed out and the request has ended after that one call.
C23_Witness ==
    \E r \in Slots :
        /\ Done(r, "verify_answer")
        /\ remote[r] = TransportError("ReadTimeout")
        /\ ai_result[r].state = "raised"
        /\ calls[r] = 1

\* part occurs in text as a run of consecutive chunks.
Contains(text, part) ==
    \E i \in 0..(Len(text) - Len(part)) :
        \A k \in 1..Len(part) : text[i + k] = part[k]

(***************************************************************************)
(* C24: in verify_answer the call to the remote service comes after the    *)
(* load of the dataset and after the record with the given id was found:   *)
(* a request that has made the call holds all the records of the source    *)
(* and the record of its id, and its prompt has the question, the stored   *)
(* answer and the category (when it is not empty) of that record and the   *)
(* user's answer; a request that ends with 404 or with a dataset error has *)
(* made no call and built no prompt.                                       *)
(***************************************************************************)
C24_CallOnlyAfterRecordFound ==
    \A r \in Slots :
        /\ (calls[r] > 0 \/ prompt[r].built)
           => /\ op[r] = "verify_answer"
              /\ pc[r] \in {"awaiting", "done"}
              /\ calls[r] > 0 /\ prompt[r].built
              /\ Len(records[r]) = Len(DataRows(source))
              /\ HasId(records[r], args[r].question_id)
              /\ found[r].some
              /\ found[r].record = WithId(records[r], args[r].question_id)
              /\ LET record == found[r].record
                     text == prompt[r].text
                 IN  /\ Contains(text, <<"Question: ">> \o record.question)
                     /\ Contains(text,
                                 <<"Correct Answer: ">> \o record.answer)
                     /\ record.category # <<>>
                        => Contains(text, <<" from the category '">>
                                          \o record.category \o <<"'">>)
                     /\ Contains(text, <<"User's Answer: ">>
                                       \o args[r].user_answer)
        /\ (pc[r] = "done" /\ response[r].status \in {404, 500})
           => /\ calls[r] = 0
              /\ ~prompt[r].built
              /\ remote[r] = NoRemote
              /\ ai_result[r] = NoResult

\* The request for the second record waits for the remote service with a
\* prompt about Rome.
C24_Witness ==
    \E r \in Slots :
        /\ pc[r] = "awaiting"
        /\ args[r].question_id = 3
        /\ found[r].record.answer = <<"Rome">>
        /\ Contains(prompt[r].text, <<"Correct Answer: ", "Rome">>)
        /\ Contains(prompt[r].text, <<" from the category '", "SCIENCE", "'">>)

\* The detail of the two errors of get_all_records.
IsDatasetError(resp) ==
    /\ DOMAIN resp = {"status", "detail"}
    /\ resp.status = 500
    /\ \/ resp.detail = <<"Data source not found">>
       \/ /\ Len(resp.detail) > 1
          /\ resp.detail[1] = "Error reading data source: "

FailedWithoutTimeout(r) ==
    \/ remote[r].kind = "error" /\ remote[r].error # "ReadTimeout"
    \/ remote[r].kind = "response" /\ ~IsSuccess(remote[r].status_code)

(***************************************************************************)
(* C21: a timeout of the call to the remote service is handled like every  *)
(* other failure of it: of two verify_answer requests on the same dataset  *)
(* with the same id and the same user answer, the one whose call timed out *)
(* gets the response of the one whose call met a transport error or a      *)
(* status that is not 2xx, and that response is the exact-match fallback.  *)
(***************************************************************************)
C21_TimeoutLikeAnyFailure ==
    \A r \in AllSlots, q \in AllSlots :
        ( /\ Done(r, "verify_answer")
          /\ Done(q, "verify_answer")
          /\ args[r] = args[q]
          /\ remote[r] = TransportError("ReadTimeout")
          /\ FailedWithoutTimeout(q) )
        => /\ ai_result[r].state = "raised"
           /\ ai_result[q].state = "raised"
           /\ ai_result[r].message = ai_result[q].message
           /\ response[r] = response[q]
           /\ response[r] =
                [status |-> 200,
                 body |-> [correct |->
                               (args[r].user_answer = found[r].record.answer),
                           ai_response |-> found[r].record.answer]]

\* The same answer for the same id: one call timed out, the other came back
\* with 429, and both requests accepted the answer.
C21_Witness ==
    /\ Done(1, "verify_answer")
    /\ Done(2, "verify_answer")
    /\ args[1] = args[2]
    /\ remote[1] = TransportError("ReadTimeout")
    /\ remote[2] = HttpResponse(429, NoBody)
    /\ response[1] = response[2]
    /\ response[1].body = [correct |-> TRUE, ai_response |-> <<"Paris">>]

\* What one request running alone gets from the source: the load from the
\* first line to the last, then the handler on the records of that load.
RECURSIVE LoadAlone(_, _, _, _)
LoadAlone(src, pos, line_number, acc) ==
    IF pos = Len(src.rows) THEN [ok |-> TRUE, records |-> acc]
    ELSE LET line == src.rows[pos + 1]
             parsed == ParseRow(src.header, line, line_number)
         IN  IF line = <<>>
             THEN LoadAlone(src, pos + 1, line_number, acc)
             ELSE IF parsed.ok
             THEN LoadAlone(src, pos + 1, line_number + 1,
                            Append(acc, parsed.record))
             ELSE [ok |-> FALSE, error |-> ErrorReading(parsed.cause)]

SnapshotAlone(src) ==
    IF ~src.exists THEN [ok |-> FALSE, error |-> DataSourceNotFound]
    ELSE IF ~src.readable
    THEN [ok |-> FALSE,
          error |-> ErrorReading(<<"[Errno 13] Permission denied">>)]
    ELSE LoadAlone(src, 0, FirstLineNumber, <<>>)

\* The response of slot r is one that its request can get when it runs
\* alone on the source, with the outcome that its remote call had.
OutcomeAlone(r) ==
    LET snapshot == SnapshotAlone(source)
    IN  IF ~snapshot.ok THEN response[r] = snapshot.error
        ELSE IF op[r] = "get_question"
        THEN LET matching == MatchingRecords(snapshot.records,
                                             args[r].round, args[r].value)
             IN  IF matching = <<>>
                 THEN response[r] =
                          NoQuestionsFound(args[r].round, args[r].value)
                 ELSE \E i \in 1..Len(matching) :
                          response[r] =
                              [status |-> 200,
                               body |-> QuestionPayload(matching[i])]
        ELSE LET record == GetRecordByQuestionId(snapshot.records,
                                                 args[r].question_id)
             IN  IF ~record.some
                 THEN response[r] = QuestionNotFound(args[r].question_id)
                 ELSE \E lax_str \in BOOLEAN :
                          response[r] =
                              VerifyOutcome(VerifyTriviaAnswer(remote[r]),
                                            record.record,
                                            args[r].user_answer, lax_str)

\* The data rows among the first n lines of the source.
DataRowsUpTo(src, n) ==
    SelectSeq(SubSeq(src.rows, 1, n), LAMBDA line : line # <<>>)

(***************************************************************************)
(* C25: with two requests under way in any interleaving, the records of a  *)
(* load that has ended are those of all the data rows of the source, a     *)
(* load that failed has left no record, the records of a load in progress  *)
(* are those of the rows that this load has read itself, and the response  *)
(* of each request is one that it gets when it runs alone on the same      *)
(* source.                                                                 *)
(***************************************************************************)
C25_LoadsAreIsolated ==
    \A r \in AllSlots :
        /\ pc[r] \in {"loaded", "awaiting"}
           => /\ Loadable(source)
              /\ MirrorsSource(records[r], source)
        /\ pc[r] = "read"
           => /\ Len(records[r]) = Len(DataRowsUpTo(source, load[r].pos))
              /\ \A k \in 1..Len(records[r]) :
                    /\ records[r][k].question_id = k + 1
                    /\ IsTrimOf(records[r][k].answer, DataRows(source)[k][7])
        /\ (pc[r] = "done" /\ ~Loadable(source))
           => /\ IsDatasetError(response[r])
              /\ records[r] = <<>>
        /\ pc[r] = "done" => OutcomeAlone(r)

\* One request is in the middle of its load, with one row read, while the
\* other has loaded both rows and got its question.
C25_Witness ==
    /\ pc[1] = "read"
    /\ Len(records[1]) = 1
    /\ Done(2, "get_question")
    /\ Len(records[2]) = 2
    /\ response[2].status = 200

=============================================================================
